---- MODULE Spec2Model ----
(***************************************************************************)
(* TrimToFit: the range resolver (AudioProcessor.invert_ranges) and the    *)
(* segment assembler (AudioProcessor.process_audio) of                     *)
(* src/trimtofit/core/audio_processor.py.                                  *)
(*                                                                         *)
(* Offsets are integer milliseconds.  The decoded audio is a sequence with *)
(* one sample per millisecond; the sample that covers [k-1, k) is the      *)
(* number k, so that every sample of the source is distinguishable.        *)
(* Every call process_audio makes into a collaborator (pydub, the progress *)
(* sink) is appended to the log `calls` as <<operation, a, b>>; a progress *)
(* call is logged with the exact rational <<numerator, denominator>> its   *)
(* expression denotes, and the double that Python computes for it and      *)
(* hands to the sink is appended to `sink`.                                *)
(*                                                                         *)
(* Around them: the Spinbox and TimeInputFrame widgets                     *)
(* (src/trimtofit/gui/widgets.py), the TrimView that collects the ranges   *)
(* and runs process_audio on a worker thread (src/trimtofit/gui/views.py), *)
(* get_unique_filepath (src/trimtofit/utils/file_utils.py) and the other   *)
(* operations of AudioProcessor that choose an output path.  Each part has *)
(* its own variables, initial condition and next-state relation.           *)
(*                                                                         *)
(* src/processor.py holds an earlier copy of the same class: its           *)
(* invert_ranges (lines 35-55) and its slice/append loop (lines 97-107)    *)
(* are line for line the ones modelled here; it has no Keep mode.          *)
(***************************************************************************)
EXTENDS Integers, Sequences, FiniteSets, TLC

\* Longest source audio, in ms.
MaxT == 3
\* Largest offset the caller can put in a range (beyond MaxT on purpose).
MaxMs == 4
\* Longest list of ranges the caller supplies.
MaxRanges == 2
\* Longest list of ranges in the runs that exercise the progress arithmetic.
MaxCount == 50

VARIABLES
    pc,                   \* position of process_audio
    supplied_ranges,      \* the caller's list as it was when the call began
    remove_ranges_ms,     \* the caller's list (sorted in place by the call)
    keep_selected_ranges, \* mode flag: TRUE = Keep, FALSE = Remove
    has_callback,         \* progress_callback is not None
    audio,                \* the loaded AudioSegment
    total_duration,       \* len(audio)
    keep_ranges,          \* the list the slice/append loop walks
    i,                    \* number of loop iterations completed
    final_audio,          \* the output AudioSegment
    calls,                \* log of collaborator calls, in order
    sink,                 \* the doubles handed to progress_callback, in order
    raised,               \* exception raised to the caller, or "none"
    returned,             \* TRUE once actual_output_path has been returned
    \* Spinbox
    entry,                \* the text of self.entry
    max_val,              \* self.max_val
    \* TrimView, its worker threads and the Tk event loop
    selected_file_path,   \* TRUE once a file has been selected
    range_rows,           \* the rows: <<start, end>>, each <<hh, mm, ss>> texts
    buttons,              \* state of preview_btn, save_btn, select_btn, add_btn
    progress_bar,         \* value of the progress bar, in tenths
    status_label,         \* text of the status label
    messagebox,           \* the last message box shown, or <<>>
    workers,              \* the threads started, in order
    after_queue,          \* callbacks scheduled with self.after(0, ...)
    \* change_speed, convert_format, merge_audio_files and the file system
    operation,            \* the AudioProcessor method running
    stage,                \* its position
    speed_factor,         \* change_speed's argument
    inputs,               \* for each input path, whether it exists
    existing,             \* the candidate output paths that exist
    actual_output_path,   \* the path chosen, or <<>>
    steps,                \* log of what the operation did, in order
    error                 \* exception raised to the caller, or "none"

coreVars == <<pc, supplied_ranges, remove_ranges_ms, keep_selected_ranges,
              has_callback, audio, total_duration, keep_ranges, i, final_audio,
              calls, sink, raised, returned>>

spinVars == <<entry, max_val>>

viewVars == <<selected_file_path, range_rows, buttons, progress_bar,
              status_label, messagebox, workers, after_queue>>

fileVars == <<operation, stage, speed_factor, inputs, existing,
              actual_output_path, steps, error>>

vars == <<coreVars, spinVars, viewVars, fileVars>>

----------------------------------------------------------------------------
(* Helpers *)

Max(a, b) == IF a >= b THEN a ELSE b

Min(a, b) == IF a <= b THEN a ELSE b

Front(s) == SubSeq(s, 1, Len(s) - 1)

Last(s) == s[Len(s)]

\* A range the caller may supply: 0 <= start < end (views.py filters the rest).
ValidRanges == {r \in (0..MaxMs) \X (0..MaxMs) : r[1] < r[2]}

RangeLists == UNION {[1..n -> ValidRanges] : n \in 0..MaxRanges}

\* The audio decoded from a file of n ms.
Source(n) == [k \in 1..n |-> k]

----------------------------------------------------------------------------
(* list.sort(key=lambda x: x[0]): a stable sort by start *)

RECURSIVE InsertByStart(_, _)
InsertByStart(sorted, r) ==
    IF sorted = <<>> THEN <<r>>
    ELSE IF Last(sorted)[1] <= r[1] THEN Append(sorted, r)
    ELSE Append(InsertByStart(Front(sorted), r), Last(sorted))

RECURSIVE StableSort(_)
StableSort(rs) ==
    IF rs = <<>> THEN <<>>
    ELSE InsertByStart(StableSort(Front(rs)), Last(rs))

\* The distinct ranges of rs, sorted.
SortedDistinct(rs) ==
    LET IsFirst(k) == \A m \in 1..(k - 1) : rs[m] # rs[k]
        firsts == {k \in 1..Len(rs) : IsFirst(k)}
        Nth(n) == CHOOSE k \in firsts : Cardinality({m \in firsts : m < k}) = n - 1
    IN  StableSort([n \in 1..Cardinality(firsts) |-> rs[Nth(n)]])

Unsorted(rs) == rs

SortByStart(rs) == StableSort(rs)

----------------------------------------------------------------------------
(* AudioProcessor.invert_ranges *)

KeepAlways(start, current_time) == TRUE

\* line 39: the gap before a remove range is kept only if it is not empty
GapBefore(start, current_time) == start > current_time

AdvanceToEnd(current_time, end) == end

\* line 41: the cursor never moves backward
Advance(current_time, end) == Max(current_time, end)

\* lines 38-41: the loop over the sorted ranges, from index k on; the result
\* is the keep list, the cursor and the number of iterations made
RECURSIVE Sweep(_, _, _, _)
Sweep(rs, k, current_time, keep) ==
    IF k > Len(rs) THEN <<keep, current_time, k - 1>>
    ELSE LET start == rs[k][1]
             end == rs[k][2]
             keep2 == IF GapBefore(start, current_time)
                      THEN Append(keep, <<current_time, start>>)
                      ELSE keep
         IN  Sweep(rs, k + 1, Advance(current_time, end), keep2)

TailAlways(remove_ranges, total_duration_ms) ==
    LET swept == Sweep(SortByStart(remove_ranges), 1, 0, <<>>)
    IN  Append(swept[1], <<swept[2], total_duration_ms>>)

\* lines 32-46
invert_ranges(remove_ranges, total_duration_ms) ==
    LET swept == Sweep(SortByStart(remove_ranges), 1, 0, <<>>)
        keep == swept[1]
        current_time == swept[2]
    IN  IF current_time < total_duration_ms
        THEN Append(keep, <<current_time, total_duration_ms>>)
        ELSE keep

----------------------------------------------------------------------------
(* Python floats: IEEE 754 binary64, round to nearest, ties to even.       *)
(* A positive double is <<e, m>> with value m * 2^e, where m is an integer *)
(* of exactly Precision bits, held as a sequence of limbs in base          *)
(* LimbBase, most significant first (TLC's integers have 32 bits).  Only   *)
(* +, integer * double and 0.5 / integer on positive normal numbers are    *)
(* needed: the arithmetic of lines 108-109.                                *)

\* Bits of a double's significand.
Precision == 53

\* Bits of one limb, and the base 2^LimbBits.
LimbBits == 14

LimbBase == 2 ^ LimbBits

\* Bits of the small natural number v (0 for v = 0).
BitLen(v) ==
    CHOOSE b \in 0..31 : v < 2 ^ b /\ (b = 0 \/ 2 ^ (b - 1) <= v)

\* Drop the leading zero limbs.
Strip(padded) ==
    IF \A j \in 1..Len(padded) : padded[j] = 0 THEN <<>>
    ELSE LET first == CHOOSE j \in 1..Len(padded) :
                          padded[j] # 0 /\ \A m \in 1..(j - 1) : padded[m] = 0
         IN  SubSeq(padded, first, Len(padded))

\* Bits of the positive big number.
BigBits(big) == (Len(big) - 1) * LimbBits + BitLen(big[1])

\* big * factor for a small factor, from the last limb up.
RECURSIVE TimesFrom(_, _, _, _, _)
TimesFrom(big, at, factor, carry, low) ==
    IF at = 0 THEN Strip(<<carry \div LimbBase, carry % LimbBase>> \o low)
    ELSE LET t == big[at] * factor + carry
         IN  TimesFrom(big, at - 1, factor, t \div LimbBase, <<t % LimbBase>> \o low)

BigTimes(multiplicand, small) == TimesFrom(multiplicand, Len(multiplicand), small, 0, <<>>)

\* The sum of two limb strings of the same length, from the last limb up.
RECURSIVE PlusFrom(_, _, _, _, _)
PlusFrom(left, right, at, carry, low) ==
    IF at = 0 THEN Strip(<<carry>> \o low)
    ELSE LET t == left[at] + right[at] + carry
         IN  PlusFrom(left, right, at - 1, t \div LimbBase, <<t % LimbBase>> \o low)

Padded(short, width) == [j \in 1..(width - Len(short)) |-> 0] \o short

BigPlus(augend, addend) ==
    LET width == IF Len(augend) >= Len(addend) THEN Len(augend) ELSE Len(addend)
    IN  PlusFrom(Padded(augend, width), Padded(addend, width), width, 0, <<>>)

\* big * 2^shift
RECURSIVE ShiftLeft(_, _)
ShiftLeft(shifted, shift) ==
    IF shift >= LimbBits THEN ShiftLeft(Append(shifted, 0), shift - LimbBits)
    ELSE BigTimes(shifted, 2 ^ shift)

\* big \div 2^shift, for 1 <= shift <= LimbBits
ShiftRight(dropped, shift) ==
    Strip([j \in 1..Len(dropped) |->
              (dropped[j] \div (2 ^ shift))
              + (IF j > 1
                 THEN (dropped[j - 1] % (2 ^ shift)) * (2 ^ (LimbBits - shift))
                 ELSE 0)])

\* big \div divisor and big % divisor for a small divisor, from the first limb.
RECURSIVE DivideFrom(_, _, _, _, _)
DivideFrom(dividend, at, divisor, rem, high) ==
    IF at > Len(dividend) THEN <<Strip(high), rem>>
    ELSE LET cur == rem * LimbBase + dividend[at]
         IN  DivideFrom(dividend, at + 1, divisor, cur % divisor,
                        Append(high, cur \div divisor))

\* Round significand * 2^scale (sticky: a non-zero fraction follows the
\* significand) to the nearest double, ties to even.
RECURSIVE RoundToDouble(_, _, _)
RoundToDouble(scale, significand, sticky) ==
    LET bits == BigBits(significand)
        over == bits - Precision
    IN  IF over <= 0
        THEN <<scale + over, ShiftLeft(significand, 0 - over)>>
        ELSE IF over > LimbBits
        THEN RoundToDouble(scale + LimbBits,
                           SubSeq(significand, 1, Len(significand) - 1),
                           sticky \/ significand[Len(significand)] # 0)
        ELSE LET tail == IF over = LimbBits
                         THEN significand[Len(significand)]
                         ELSE significand[Len(significand)] % (2 ^ over)
                 half == 2 ^ (over - 1)
                 kept == ShiftRight(significand, over)
                 odd == kept[Len(kept)] % 2 = 1
                 up == tail > half \/ (tail = half /\ (sticky \/ odd))
                 rounded == IF up THEN BigPlus(kept, <<1>>) ELSE kept
             IN  IF BigBits(rounded) > Precision
                 THEN <<scale + over + 1, ShiftRight(rounded, 1)>>
                 ELSE <<scale + over, rounded>>

\* 0.5 / parts, parts a positive integer (exact as a double): the quotient
\* 2^n \div (2 * parts) with n chosen to give Precision + 3 bits.
HalfOver(parts) ==
    LET divisor == 2 * parts
        n == BitLen(divisor - 1) + Precision + 2
        power == <<2 ^ (n % LimbBits)>> \o [j \in 1..(n \div LimbBits) |-> 0]
        q == DivideFrom(power, 1, divisor, 0, <<>>)
    IN  RoundToDouble(0 - n, q[1], q[2] # 0)

\* multiplier * value, multiplier a positive integer (exact as a double)
IntTimes(multiplier, value) ==
    RoundToDouble(value[1], BigTimes(value[2], multiplier), FALSE)

\* x + y
DoublePlus(x, y) ==
    LET floor == IF x[1] <= y[1] THEN x[1] ELSE y[1]
    IN  RoundToDouble(floor,
                      BigPlus(ShiftLeft(x[2], x[1] - floor),
                              ShiftLeft(y[2], y[1] - floor)),
                      FALSE)

\* x < y
DoubleLess(lesser, greater) ==
    \/ lesser[1] < greater[1]
    \/ /\ lesser[1] = greater[1]
       /\ \E j \in 1..Len(lesser[2]) :
              /\ lesser[2][j] < greater[2][j]
              /\ \A m \in 1..(j - 1) : lesser[2][m] = greater[2][m]

DoubleLeq(below, above) == below = above \/ DoubleLess(below, above)

\* The big number 0x1<hex digits>.
RECURSIVE BigFromHex(_, _)
BigFromHex(sofar, hex) ==
    IF hex = <<>> THEN sofar
    ELSE BigFromHex(BigPlus(BigTimes(sofar, 16), <<Head(hex)>>), Tail(hex))

\* The double written 0x1.<13 hex digits>p<exponent> by float.hex().
Double(exponent, digits) == <<exponent - (Precision - 1), BigFromHex(<<1>>, digits)>>

\* The literals of process_audio.
Double01 == Double(0 - 4, <<9, 9, 9, 9, 9, 9, 9, 9, 9, 9, 9, 9, 10>>)

Double03 == Double(0 - 2, <<3, 3, 3, 3, 3, 3, 3, 3, 3, 3, 3, 3, 3>>)

Double08 == Double(0 - 1, <<9, 9, 9, 9, 9, 9, 9, 9, 9, 9, 9, 9, 10>>)

Double10 == Double(0, <<0, 0, 0, 0, 0, 0, 0, 0, 0, 0, 0, 0, 0>>)

WholeBandEach(index, ranges) == DoublePlus(Double03, IntTimes(index, HalfOver(1)))

\* lines 108-109 as Python evaluates them: 0.3 + ((i + 1) * (0.5 / count))
DoubleProgress(index, ranges) == DoublePlus(Double03, IntTimes(index, HalfOver(ranges)))

----------------------------------------------------------------------------
(* AudioProcessor.process_audio *)

\* The progress sink is called only when one was given.
Report(num, den) == IF has_callback THEN <<<<"progress", num, den>>>> ELSE <<>>

\* The double the sink receives, when there is a sink.
Sunk(double) == IF has_callback THEN <<double>> ELSE <<>>

\* line 103: audio[start:end]; pydub cuts both offsets down to len(audio)
Slice(a, start, end) == SubSeq(a, Min(start, Len(a)) + 1, Min(end, Len(a)))

Prepended(out, segment) == segment \o out

\* line 104: final_audio += segment
Appended(out, segment) == out \o segment

Undivided(k, count) == <<3 + 5 * k, 10>>

\* lines 108-109: 0.3 + (i + 1) * (0.5 / count), for the 1-based index k
RangeProgress(k, count) == <<3 * count + 5 * k, 10 * count>>

\* The doubles of lines 108-109 for every index and count of the model
\* (a constant: evaluated once).
RangeDoubles ==
    LET longest == IF MaxCount >= MaxRanges + 1 THEN MaxCount ELSE MaxRanges + 1
    IN  [count \in 1..longest |-> [k \in 1..count |-> DoubleProgress(k, count)]]

AppendThenSlice(start, end, k, count) ==
    <<<<"append", start, end>>, <<"slice", start, end>>>>
        \o Report(RangeProgress(k, count)[1], RangeProgress(k, count)[2])

\* lines 103-110: the calls of one loop iteration, in order
IterationCalls(start, end, k, count) ==
    <<<<"slice", start, end>>, <<"append", start, end>>>>
        \o Report(RangeProgress(k, count)[1], RangeProgress(k, count)[2])

\* No call of process_audio is in progress.
CoreAbsent ==
    /\ pc = "none"
    /\ supplied_ranges = <<>>
    /\ remove_ranges_ms = <<>>
    /\ keep_selected_ranges = FALSE
    /\ has_callback = FALSE
    /\ audio = <<>>
    /\ total_duration = 0
    /\ keep_ranges = <<>>
    /\ i = 0
    /\ final_audio = <<>>
    /\ calls = <<>>
    /\ sink = <<>>
    /\ raised = "none"
    /\ returned = FALSE

\* The parts of the program that take no part in a run of process_audio.
SpinboxAbsent == entry = <<>> /\ max_val = 0

ViewAbsent ==
    /\ selected_file_path = FALSE
    /\ range_rows = <<>>
    /\ buttons = [b \in {"preview_btn", "save_btn", "select_btn", "add_btn"}
                      |-> "normal"]
    /\ progress_bar = 0
    /\ status_label = "Ready"
    /\ messagebox = <<>>
    /\ workers = <<>>
    /\ after_queue = <<>>

FilesAbsent ==
    /\ operation = "none"
    /\ stage = "none"
    /\ speed_factor = <<>>
    /\ inputs = <<>>
    /\ existing = {}
    /\ actual_output_path = <<>>
    /\ steps = <<>>
    /\ error = "none"

Init ==
    /\ SpinboxAbsent /\ ViewAbsent /\ FilesAbsent
    /\ pc = "start"
    /\ remove_ranges_ms \in RangeLists
    /\ supplied_ranges = remove_ranges_ms
    /\ keep_selected_ranges \in BOOLEAN
    /\ has_callback \in BOOLEAN
    /\ audio = <<>>
    /\ total_duration = 0
    /\ keep_ranges = <<>>
    /\ i = 0
    /\ final_audio = <<>>
    /\ calls = <<>>
    /\ sink = <<>>
    /\ raised = "none"
    /\ returned = FALSE

LateInputCheck ==
    /\ pc = "load"
    /\ pc' = "failed"
    /\ raised' = "FileNotFoundError"
    /\ UNCHANGED <<supplied_ranges, remove_ranges_ms, keep_selected_ranges,
                   has_callback, audio, total_duration, keep_ranges, i,
                   final_audio, calls, sink, returned>>
    /\ UNCHANGED <<spinVars, viewVars, fileVars>>

\* lines 73-74: os.path.exists(input_path) answers False
InputMissing ==
    /\ pc = "start"
    /\ pc' = "failed"
    /\ raised' = "FileNotFoundError"
    /\ UNCHANGED <<sink, supplied_ranges, remove_ranges_ms, keep_selected_ranges,
                   has_callback, audio, total_duration, keep_ranges, i,
                   final_audio, calls, returned>>
    /\ UNCHANGED <<spinVars, viewVars, fileVars>>

\* lines 73-77: os.path.exists(input_path) answers True
Begin ==
    /\ pc = "start"
    /\ sink' = sink \o Sunk(Double01)
    /\ calls' = calls \o Report(1, 10)
    /\ pc' = "load"
    /\ UNCHANGED <<supplied_ranges, remove_ranges_ms, keep_selected_ranges,
                   has_callback, audio, total_duration, keep_ranges, i,
                   final_audio, raised, returned>>
    /\ UNCHANGED <<spinVars, viewVars, fileVars>>

\* lines 79-87: the file decodes to an audio of some length n
Load ==
    /\ pc = "load"
    /\ \E n \in 0..MaxT : audio' = Source(n)
    /\ total_duration' = Len(audio')
    /\ sink' = sink \o Sunk(Double03)
    /\ calls' = calls \o <<<<"load", 0, 0>>>> \o Report(3, 10)
    /\ pc' = "resolve"
    /\ UNCHANGED <<supplied_ranges, remove_ranges_ms, keep_selected_ranges,
                   has_callback, keep_ranges, i, final_audio, raised, returned>>
    /\ UNCHANGED <<spinVars, viewVars, fileVars>>

\* lines 79-82: AudioSegment.from_file raises
LoadFails ==
    /\ pc = "load"
    /\ calls' = calls \o <<<<"load", 0, 0>>>>
    /\ pc' = "failed"
    /\ raised' = "RuntimeError"
    /\ UNCHANGED <<sink, supplied_ranges, remove_ranges_ms, keep_selected_ranges,
                   has_callback, audio, total_duration, keep_ranges, i,
                   final_audio, returned>>
    /\ UNCHANGED <<spinVars, viewVars, fileVars>>

\* lines 90-98
Resolve ==
    /\ pc = "resolve"
    /\ remove_ranges_ms' = SortByStart(remove_ranges_ms)
    /\ keep_ranges' = IF keep_selected_ranges
                      THEN remove_ranges_ms'
                      ELSE invert_ranges(remove_ranges_ms, total_duration)
    /\ final_audio' = <<>>
    /\ i' = 0
    /\ pc' = "loop"
    /\ UNCHANGED <<sink, supplied_ranges, keep_selected_ranges, has_callback,
                   audio, total_duration, calls, raised, returned>>
    /\ UNCHANGED <<spinVars, viewVars, fileVars>>

BreakAfterFirst ==
    /\ pc = "loop"
    /\ i < Len(keep_ranges)
    /\ LET start == keep_ranges[i + 1][1]
           end == keep_ranges[i + 1][2]
           segment == Slice(audio, start, end)
       IN  /\ final_audio' = Appended(final_audio, segment)
           /\ calls' = calls \o IterationCalls(start, end, i + 1, Len(keep_ranges))
    /\ sink' = sink \o Sunk(RangeDoubles[Len(keep_ranges)][i + 1])
    /\ i' = Len(keep_ranges)
    /\ UNCHANGED <<pc, supplied_ranges, remove_ranges_ms,
                   keep_selected_ranges, has_callback, audio, total_duration,
                   keep_ranges, raised, returned>>
    /\ UNCHANGED <<spinVars, viewVars, fileVars>>

\* lines 102-110: one iteration of the slice/append loop
LoopIteration ==
    /\ pc = "loop"
    /\ i < Len(keep_ranges)
    /\ LET start == keep_ranges[i + 1][1]
           end == keep_ranges[i + 1][2]
           segment == Slice(audio, start, end)
       IN  /\ final_audio' = Appended(final_audio, segment)
           /\ calls' = calls \o IterationCalls(start, end, i + 1, Len(keep_ranges))
    /\ sink' = sink \o Sunk(RangeDoubles[Len(keep_ranges)][i + 1])
    /\ i' = i + 1
    /\ UNCHANGED <<pc, supplied_ranges, remove_ranges_ms,
                   keep_selected_ranges, has_callback, audio, total_duration,
                   keep_ranges, raised, returned>>
    /\ UNCHANGED <<spinVars, viewVars, fileVars>>

CarryOnAfterFailure ==
    /\ pc = "loop"
    /\ i < Len(keep_ranges)
    /\ calls' = calls \o <<<<"slice", keep_ranges[i + 1][1], keep_ranges[i + 1][2]>>>>
    /\ pc' = "export"
    /\ raised' = "Exception"
    /\ UNCHANGED <<sink, supplied_ranges, remove_ranges_ms, keep_selected_ranges,
                   has_callback, audio, total_duration, keep_ranges, i,
                   final_audio, returned>>
    /\ UNCHANGED <<spinVars, viewVars, fileVars>>

\* lines 103-104: the slice or the append raises; nothing catches it
LoopFails ==
    /\ pc = "loop"
    /\ i < Len(keep_ranges)
    /\ \E op \in {"slice", "append"} :
         LET start == keep_ranges[i + 1][1]
             end == keep_ranges[i + 1][2]
         IN  calls' = calls \o
                 (IF op = "slice"
                  THEN <<<<"slice", start, end>>>>
                  ELSE <<<<"slice", start, end>>, <<"append", start, end>>>>)
    /\ pc' = "failed"
    /\ raised' = "Exception"
    /\ UNCHANGED <<sink, supplied_ranges, remove_ranges_ms, keep_selected_ranges,
                   has_callback, audio, total_duration, keep_ranges, i,
                   final_audio, returned>>
    /\ UNCHANGED <<spinVars, viewVars, fileVars>>

RestartLoop ==
    /\ pc = "loop"
    /\ i = Len(keep_ranges)
    /\ IF keep_ranges # <<>> /\ Len(calls) <= 4 * Len(keep_ranges)
       THEN /\ i' = 0
            /\ UNCHANGED <<pc, sink, calls>>
       ELSE /\ sink' = sink \o Sunk(Double08)
            /\ calls' = calls \o Report(8, 10)
            /\ pc' = "export"
            /\ UNCHANGED i
    /\ UNCHANGED <<supplied_ranges, remove_ranges_ms, keep_selected_ranges,
                   has_callback, audio, total_duration, keep_ranges,
                   final_audio, raised, returned>>
    /\ UNCHANGED <<spinVars, viewVars, fileVars>>

RejectEmpty ==
    /\ pc = "loop"
    /\ i = Len(keep_ranges)
    /\ IF keep_ranges = <<>>
       THEN /\ pc' = "failed"
            /\ raised' = "ValueError"
            /\ UNCHANGED <<sink, calls>>
       ELSE /\ sink' = sink \o Sunk(Double08)
            /\ calls' = calls \o Report(8, 10)
            /\ pc' = "export"
            /\ UNCHANGED raised
    /\ UNCHANGED <<supplied_ranges, remove_ranges_ms, keep_selected_ranges,
                   has_callback, audio, total_duration, keep_ranges, i,
                   final_audio, returned>>
    /\ UNCHANGED <<spinVars, viewVars, fileVars>>

\* lines 100, 112-130: the loop is over (or was skipped)
EndLoop ==
    /\ pc = "loop"
    /\ i = Len(keep_ranges)
    /\ sink' = sink \o Sunk(Double08)
    /\ calls' = calls \o Report(8, 10)
    /\ pc' = "export"
    /\ UNCHANGED <<supplied_ranges, remove_ranges_ms, keep_selected_ranges,
                   has_callback, audio, total_duration, keep_ranges, i,
                   final_audio, raised, returned>>
    /\ UNCHANGED <<spinVars, viewVars, fileVars>>

ReportThenExport ==
    /\ pc = "export"
    /\ sink' = sink \o Sunk(Double10)
    /\ calls' = calls \o Report(10, 10) \o <<<<"export", Len(final_audio), 0>>>>
    /\ pc' = "done"
    /\ returned' = TRUE
    /\ UNCHANGED <<supplied_ranges, remove_ranges_ms, keep_selected_ranges,
                   has_callback, audio, total_duration, keep_ranges, i,
                   final_audio, raised>>
    /\ UNCHANGED <<spinVars, viewVars, fileVars>>

\* lines 132-144
Export ==
    /\ pc = "export"
    /\ sink' = sink \o Sunk(Double10)
    /\ calls' = calls \o <<<<"export", Len(final_audio), 0>>>> \o Report(10, 10)
    /\ pc' = "done"
    /\ returned' = TRUE
    /\ UNCHANGED <<supplied_ranges, remove_ranges_ms, keep_selected_ranges,
                   has_callback, audio, total_duration, keep_ranges, i,
                   final_audio, raised>>
    /\ UNCHANGED <<spinVars, viewVars, fileVars>>

\* lines 132-139: final_audio.export raises
ExportFails ==
    /\ pc = "export"
    /\ calls' = calls \o <<<<"export", Len(final_audio), 0>>>>
    /\ pc' = "failed"
    /\ raised' = "RuntimeError"
    /\ UNCHANGED <<sink, supplied_ranges, remove_ranges_ms, keep_selected_ranges,
                   has_callback, audio, total_duration, keep_ranges, i,
                   final_audio, returned>>
    /\ UNCHANGED <<spinVars, viewVars, fileVars>>

Next ==
    \/ InputMissing
    \/ Begin
    \/ Load
    \/ LoadFails
    \/ Resolve
    \/ LoopIteration
    \/ LoopFails
    \/ EndLoop
    \/ Export
    \/ ExportFails

Spec == Init /\ [][Next]_vars

\* Runs with a sink and long lists: the caller keeps 1..MaxCount ranges.
InitProgress ==
    /\ SpinboxAbsent /\ ViewAbsent /\ FilesAbsent
    /\ pc = "start"
    /\ \E n \in 1..MaxCount : remove_ranges_ms = [k \in 1..n |-> <<0, 1>>]
    /\ supplied_ranges = remove_ranges_ms
    /\ keep_selected_ranges = TRUE
    /\ has_callback = TRUE
    /\ audio = <<>>
    /\ total_duration = 0
    /\ keep_ranges = <<>>
    /\ i = 0
    /\ final_audio = <<>>
    /\ calls = <<>>
    /\ sink = <<>>
    /\ raised = "none"
    /\ returned = FALSE

SpecProgress == InitProgress /\ [][Next]_vars

\* process_audio runs on its own thread and every collaborator call returns
\* (or raises): a step that can be taken is eventually taken.
SpecFair == Init /\ [][Next]_vars /\ WF_vars(Next)

TypeOK ==
    /\ pc \in {"start", "load", "resolve", "loop", "export", "done", "failed"}
    /\ i \in 0..Len(keep_ranges)
    /\ total_duration \in 0..MaxT
    /\ returned \in BOOLEAN

----------------------------------------------------------------------------
(* Spinbox (src/trimtofit/gui/widgets.py).  A text is a sequence of       *)
(* one-character strings.                                                  *)

\* Longest text typed into an entry.
MaxText == 2

\* TimeInputFrame creates its spinboxes with min_val=0 and the default step.
min_val == 0

step_size == 1

DigitChars == <<"0", "1", "2", "3", "4", "5", "6", "7", "8", "9">>

\* The characters the user types: digits, a sign, a blank, a letter.
TypedChars == {"0", "2", "4", "5", "9", "-", " ", "x"}

TypedTexts == UNION {[1..n -> TypedChars] : n \in 0..MaxText}

IsDigit(c) == \E d \in 1..10 : DigitChars[d] = c

DigitValue(c) == (CHOOSE d \in 1..10 : DigitChars[d] = c) - 1

\* str.strip(), which int() applies to its argument
RECURSIVE Stripped(_)
Stripped(text) ==
    IF text = <<>> THEN text
    ELSE IF Head(text) = " " THEN Stripped(Tail(text))
    ELSE IF Last(text) = " " THEN Stripped(Front(text))
    ELSE text

\* The number written by a non-empty string of digits.
RECURSIVE DigitsValue(_)
DigitsValue(digits) ==
    IF digits = <<>> THEN 0
    ELSE 10 * DigitsValue(Front(digits)) + DigitValue(Last(digits))

\* int(text): <<TRUE, value>>, or <<FALSE, 0>> for ValueError.  (No text of
\* the model has an underscore or a non-ASCII digit.)
ParseInt(text) ==
    LET body == Stripped(text)
        signed == body # <<>> /\ Head(body) \in {"-", "+"}
        digits == IF signed THEN Tail(body) ELSE body
        value == DigitsValue(digits)
    IN  IF digits # <<>> /\ \A k \in 1..Len(digits) : IsDigit(digits[k])
        THEN <<TRUE, IF signed /\ Head(body) = "-" THEN 0 - value ELSE value>>
        ELSE <<FALSE, 0>>

\* str(n) for n >= 0
RECURSIVE Decimal(_)
Decimal(n) ==
    IF n < 10 THEN <<DigitChars[n + 1]>>
    ELSE Append(Decimal(n \div 10), DigitChars[(n % 10) + 1])

\* f"{val:02d}"
Formatted(val) ==
    IF val < 0 THEN <<"-">> \o Decimal(0 - val)
    ELSE IF val < 10 THEN <<"0">> \o Decimal(val)
    ELSE Decimal(val)

\* lines 97-101: set_val (TimeInputFrame passes no command)
set_val(val) == entry' = Formatted(val)

\* lines 112-116: Spinbox.get on an entry holding text
get(text) == IF ParseInt(text)[1] THEN ParseInt(text)[2] ELSE min_val

\* The user edits the entry.
TypeText ==
    /\ \E text \in TypedTexts : entry' = text
    /\ UNCHANGED <<max_val, coreVars, viewVars, fileVars>>

\* lines 74-86
add ==
    /\ LET parsed == ParseInt(entry)
           val == parsed[2] + step_size
       IN  IF parsed[1]
           THEN set_val(IF val > max_val THEN min_val ELSE val)
           ELSE set_val(min_val)
    /\ UNCHANGED <<max_val, coreVars, viewVars, fileVars>>

\* lines 88-95
subtract ==
    /\ LET parsed == ParseInt(entry)
           val == parsed[2] - step_size
       IN  IF parsed[1]
           THEN set_val(IF val < min_val THEN max_val ELSE val)
           ELSE set_val(min_val)
    /\ UNCHANGED <<max_val, coreVars, viewVars, fileVars>>

\* lines 103-110
validate ==
    /\ LET parsed == ParseInt(entry)
       IN  IF parsed[1]
           THEN set_val(Max(min_val, Min(parsed[2], max_val)))
           ELSE set_val(min_val)
    /\ UNCHANGED <<max_val, coreVars, viewVars, fileVars>>

\* lines 22-24, 42, 135-149: a spinbox of a TimeInputFrame, showing min_val
InitSpinbox ==
    /\ CoreAbsent /\ ViewAbsent /\ FilesAbsent
    /\ max_val \in {24, 59}
    /\ entry = Formatted(min_val)

NextSpinbox == TypeText \/ add \/ subtract \/ validate

SpecSpinbox == InitSpinbox /\ [][NextSpinbox]_vars

----------------------------------------------------------------------------
(* get_unique_filepath (src/trimtofit/utils/file_utils.py) and the         *)
(* operations of AudioProcessor that use it.  A path is                    *)
(* <<base, counter, ext>>: counter 0 is the path as given, counter k > 0   *)
(* is f"{base}_{k}{ext}".  A speed factor is <<"finite", q>>, the float    *)
(* q/4 (exact in binary), or <<"nan", 0>>.  Every operation is given a     *)
(* progress callback.                                                      *)

\* How many of the candidate paths may exist beforehand.
MaxFiles == 2

\* Largest speed factor tried, in quarters.
MaxQuarters == 9

\* Longest list of input paths given to merge_audio_files.
MaxInputs == 2

\* line 15: os.path.splitext(filepath), and line 18: f"{base}_{counter}{ext}"
Candidate(k) == <<"base", k, "ext">>

FileSystems == SUBSET {Candidate(k) : k \in 0..MaxFiles}

SpeedFactors == {<<"finite", q>> : q \in (0 - 1)..MaxQuarters} \cup {<<"nan", 0>>}

FirstSuffix(files, k) == Candidate(k)

\* lines 16-21: the while loop, from counter k on
RECURSIVE NextFree(_, _)
NextFree(files, k) ==
    IF Candidate(k) \in files THEN NextFree(files, k + 1) ELSE Candidate(k)

\* lines 12-21
get_unique_filepath(files) ==
    IF Candidate(0) \notin files THEN Candidate(0) ELSE NextFree(files, 1)

\* line 170: 0.5 <= speed_factor <= 2.0 (false for nan)
FactorInRange(factor) == factor[1] = "finite" /\ 2 <= factor[2] /\ factor[2] <= 8

Running(name, position) == operation = name /\ stage = position

Fails(exception) == stage' = "failed" /\ error' = exception

\* lines 170-171
RejectFactor ==
    /\ Running("change_speed", "start")
    /\ ~FactorInRange(speed_factor)
    /\ Fails("ValueError")
    /\ UNCHANGED <<operation, speed_factor, inputs, existing, actual_output_path,
                   steps>>
    /\ UNCHANGED <<coreVars, spinVars, viewVars>>

FileCheckedFirst ==
    /\ Running("change_speed", "start")
    /\ ~inputs[1]
    /\ steps' = Append(steps, "exists")
    /\ Fails("FileNotFoundError")
    /\ UNCHANGED <<operation, speed_factor, inputs, existing, actual_output_path>>
    /\ UNCHANGED <<coreVars, spinVars, viewVars>>

\* lines 173-174
SpeedInputMissing ==
    /\ Running("change_speed", "start")
    /\ FactorInRange(speed_factor)
    /\ ~inputs[1]
    /\ steps' = Append(steps, "exists")
    /\ Fails("FileNotFoundError")
    /\ UNCHANGED <<operation, speed_factor, inputs, existing, actual_output_path>>
    /\ UNCHANGED <<coreVars, spinVars, viewVars>>

\* lines 170-198: the checks pass, the path is chosen, the command is built
SpeedPrepare ==
    /\ Running("change_speed", "start")
    /\ FactorInRange(speed_factor)
    /\ inputs[1]
    /\ actual_output_path' = get_unique_filepath(existing)
    /\ steps' = steps \o <<"exists", "progress 0.1", "unique", "progress 0.3">>
    /\ stage' = "export"
    /\ UNCHANGED <<operation, speed_factor, inputs, existing, error>>
    /\ UNCHANGED <<coreVars, spinVars, viewVars>>

\* lines 242-243
ConvertInputMissing ==
    /\ Running("convert_format", "start")
    /\ ~inputs[1]
    /\ steps' = Append(steps, "exists")
    /\ Fails("FileNotFoundError")
    /\ UNCHANGED <<operation, speed_factor, inputs, existing, actual_output_path>>
    /\ UNCHANGED <<coreVars, spinVars, viewVars>>

\* lines 242-249
ConvertPrepare ==
    /\ Running("convert_format", "start")
    /\ inputs[1]
    /\ actual_output_path' = get_unique_filepath(existing)
    /\ steps' = steps \o <<"exists", "progress 0.1", "unique">>
    /\ stage' = "load"
    /\ UNCHANGED <<operation, speed_factor, inputs, existing, error>>
    /\ UNCHANGED <<coreVars, spinVars, viewVars>>

\* lines 252-258: the file is decoded, the output directory made if missing
ConvertLoad ==
    /\ Running("convert_format", "load")
    /\ \E made \in {<<>>, <<"makedirs">>} :
           steps' = steps \o <<"load", "progress 0.5">> \o made
    /\ stage' = "export"
    /\ UNCHANGED <<operation, speed_factor, inputs, existing, actual_output_path,
                   error>>
    /\ UNCHANGED <<coreVars, spinVars, viewVars>>

\* lines 252, 267-268: AudioSegment.from_file raises
ConvertLoadFails ==
    /\ Running("convert_format", "load")
    /\ steps' = Append(steps, "load")
    /\ Fails("RuntimeError")
    /\ UNCHANGED <<operation, speed_factor, inputs, existing, actual_output_path>>
    /\ UNCHANGED <<coreVars, spinVars, viewVars>>

\* lines 288-289
MergeRejectEmpty ==
    /\ Running("merge_audio_files", "start")
    /\ inputs = <<>>
    /\ Fails("ValueError")
    /\ UNCHANGED <<operation, speed_factor, inputs, existing, actual_output_path,
                   steps>>
    /\ UNCHANGED <<coreVars, spinVars, viewVars>>

\* The steps of the loop of lines 298-318 from input k on: a missing file is
\* skipped, a file that fails to load is skipped too (fails[k]).
RECURSIVE MergeLoop(_, _)
MergeLoop(k, fails) ==
    IF k > Len(inputs) THEN <<>>
    ELSE (IF ~inputs[k] THEN <<"exists">>
          ELSE IF fails[k] THEN <<"exists", "load">>
          ELSE <<"exists", "load", "progress">>) \o MergeLoop(k + 1, fails)

\* lines 288-329
MergePrepare ==
    /\ Running("merge_audio_files", "start")
    /\ inputs # <<>>
    /\ actual_output_path' = get_unique_filepath(existing)
    /\ \E fails \in [1..Len(inputs) -> BOOLEAN] :
       \E made \in {<<>>, <<"makedirs">>} :
           steps' = steps \o <<"progress 0.0">> \o MergeLoop(1, fails)
                          \o <<"progress 0.75", "unique">> \o made
    /\ stage' = "export"
    /\ UNCHANGED <<operation, speed_factor, inputs, existing, error>>
    /\ UNCHANGED <<coreVars, spinVars, viewVars>>

\* process_audio, lines 112-130: after the loop
TrimPrepare ==
    /\ Running("process_audio", "start")
    /\ actual_output_path' = get_unique_filepath(existing)
    /\ \E made \in {<<>>, <<"makedirs">>} :
           steps' = steps \o <<"progress 0.8">> \o made \o <<"unique">>
    /\ stage' = "export"
    /\ UNCHANGED <<operation, speed_factor, inputs, existing, error>>
    /\ UNCHANGED <<coreVars, spinVars, viewVars>>

\* The export (ffmpeg for change_speed) writes the chosen path and returns:
\* lines 132-144, 200-221, 260-265, 331-340.
ExportDone ==
    /\ stage = "export"
    /\ existing' = existing \cup {actual_output_path}
    /\ steps' = steps \o <<"export", "progress 1.0">>
    /\ stage' = "done"
    /\ UNCHANGED <<operation, speed_factor, inputs, actual_output_path, error>>
    /\ UNCHANGED <<coreVars, spinVars, viewVars>>

\* The export raises (lines 138-139, 215-216, 267-268, 334-335); the file
\* may or may not have been created.
ExportRaises ==
    /\ stage = "export"
    /\ existing' \in {existing, existing \cup {actual_output_path}}
    /\ steps' = Append(steps, "export")
    /\ Fails("RuntimeError")
    /\ UNCHANGED <<operation, speed_factor, inputs, actual_output_path>>
    /\ UNCHANGED <<coreVars, spinVars, viewVars>>

InitFiles ==
    /\ CoreAbsent /\ SpinboxAbsent /\ ViewAbsent
    /\ operation \in {"process_audio", "change_speed", "convert_format",
                      "merge_audio_files"}
    /\ stage = "start"
    /\ speed_factor \in IF operation = "change_speed" THEN SpeedFactors ELSE {<<>>}
    /\ inputs \in IF operation = "merge_audio_files"
                  THEN UNION {[1..n -> BOOLEAN] : n \in 0..MaxInputs}
                  ELSE IF operation = "process_audio" THEN {<<TRUE>>}
                  ELSE {<<TRUE>>, <<FALSE>>}
    /\ existing \in FileSystems
    /\ actual_output_path = <<>>
    /\ steps = <<>>
    /\ error = "none"

NextFiles ==
    \/ RejectFactor
    \/ SpeedInputMissing
    \/ SpeedPrepare
    \/ ConvertInputMissing
    \/ ConvertPrepare
    \/ ConvertLoad
    \/ ConvertLoadFails
    \/ MergeRejectEmpty
    \/ MergePrepare
    \/ TrimPrepare
    \/ ExportDone
    \/ ExportRaises

SpecFiles == InitFiles /\ [][NextFiles]_vars

----------------------------------------------------------------------------
(* TrimView (src/trimtofit/gui/views.py), its worker threads and the Tk    *)
(* event loop.  A row is <<start, end>>, each a TimeInputFrame held as the *)
(* texts <<hh, mm, ss>> of its three entries.  A worker is the thread that *)
(* start_processing_thread starts on run_processing; after_queue holds the *)
(* callbacks handed to self.after(0, ...), which the event loop runs in    *)
(* order on the UI thread.  Every handler of the UI thread is one action.  *)

\* Most rows in the scroll frame.
MaxRows == 1

\* Most runs started.
MaxRuns == 2

Buttons == {"preview_btn", "save_btn", "select_btn", "add_btn"}

\* What the user types into the entries of a row, as <<frame, spinbox,
\* text>>: -1 or 02 into the seconds of the start, 01 into the seconds of
\* the end.
Typed == {<<1, 3, <<"-", "1">>>>, <<1, 3, <<"0", "2">>>>, <<2, 3, <<"0", "1">>>>}

\* widgets.py lines 135-149: max_val of the hh, mm and ss spinboxes
FrameMax == <<24, 59, 59>>

\* widgets.py lines 42, 135-149: every spinbox of a new frame shows min_val
TimeInputFrame == [k \in 1..3 |-> Formatted(min_val)]

\* widgets.py lines 152-156
get_milliseconds(frame) ==
    ((get(frame[1]) * 3600) + (get(frame[2]) * 60) + get(frame[3])) * 1000

\* lines 212-219
RECURSIVE get_ranges_in_ms(_)
get_ranges_in_ms(rows) ==
    IF rows = <<>> THEN <<>>
    ELSE LET start_ms == get_milliseconds(Head(rows)[1])
             end_ms == get_milliseconds(Head(rows)[2])
         IN  (IF end_ms > 0 /\ start_ms < end_ms
              THEN <<<<start_ms, end_ms>>>>
              ELSE <<>>) \o get_ranges_in_ms(Tail(rows))

\* The controls are left enabled whatever state is asked for.
StaysNormal(state) == [b \in Buttons |-> "normal"]

\* lines 253-257
set_ui_state(state) == [b \in Buttons |-> state]

\* lines 246-251: the thread, about to run run_processing (the mode it is
\* given, read from mode_var at line 245, is left out: nothing here
\* depends on it); ranges is the list process_audio works on, and is <<>>
\* once process_audio is over
Thread(ranges, is_preview) ==
    [ranges |-> ranges, is_preview |-> is_preview, stage |-> "process_audio",
     reported |-> 0, finished |-> 0]

\* The thread is started without looking at the ranges.
StartUnchecked(is_preview) ==
    /\ buttons' = set_ui_state("disabled")
    /\ progress_bar' = 0
    /\ status_label' = IF is_preview THEN "Generating Preview..."
                       ELSE "Processing & Saving..."
    /\ workers' = Append(workers, Thread(get_ranges_in_ms(range_rows),
                                         is_preview))
    /\ UNCHANGED <<selected_file_path, range_rows, messagebox, after_queue>>

\* lines 227-251
start_processing_thread(is_preview) ==
    IF ~selected_file_path
    THEN /\ messagebox' = <<"showwarning", "Please select an audio file first.">>
         /\ UNCHANGED <<selected_file_path, range_rows, buttons, progress_bar,
                        status_label, workers, after_queue>>
    ELSE IF get_ranges_in_ms(range_rows) = <<>>
    THEN /\ messagebox' = <<"showwarning", "Please ensure valid time ranges are set (Start < End).">>
         /\ UNCHANGED <<selected_file_path, range_rows, buttons, progress_bar,
                        status_label, workers, after_queue>>
    ELSE /\ buttons' = set_ui_state("disabled")
         /\ progress_bar' = 0
         /\ status_label' = IF is_preview THEN "Generating Preview..."
                            ELSE "Processing & Saving..."
         /\ workers' = Append(workers, Thread(get_ranges_in_ms(range_rows),
                                              is_preview))
         /\ UNCHANGED <<selected_file_path, range_rows, messagebox, after_queue>>

\* lines 221-222: a click on the preview button
on_preview ==
    /\ buttons["preview_btn"] = "normal"
    /\ Len(workers) < MaxRuns
    /\ start_processing_thread(TRUE)
    /\ UNCHANGED <<coreVars, spinVars, fileVars>>

\* lines 224-225: a click on the save button
on_save ==
    /\ buttons["save_btn"] = "normal"
    /\ Len(workers) < MaxRuns
    /\ start_processing_thread(FALSE)
    /\ UNCHANGED <<coreVars, spinVars, fileVars>>

\* lines 170-177: a click on the select button; the dialog returns a name
\* or, when cancelled, the empty string
select_file ==
    /\ buttons["select_btn"] = "normal"
    /\ \E filename \in BOOLEAN :
           IF filename
           THEN selected_file_path' = TRUE /\ status_label' = "Selected"
           ELSE UNCHANGED <<selected_file_path, status_label>>
    /\ UNCHANGED <<range_rows, buttons, progress_bar, messagebox, workers,
                   after_queue>>
    /\ UNCHANGED <<coreVars, spinVars, fileVars>>

\* lines 179-206: a click on the add button
add_range_row ==
    /\ buttons["add_btn"] = "normal"
    /\ Len(range_rows) < MaxRows
    /\ range_rows' = Append(range_rows, <<TimeInputFrame, TimeInputFrame>>)
    /\ UNCHANGED <<selected_file_path, buttons, progress_bar, status_label,
                   messagebox, workers, after_queue>>
    /\ UNCHANGED <<coreVars, spinVars, fileVars>>

\* lines 208-210: a click on the remove button of a row (never disabled)
remove_range_row ==
    /\ \E r \in 1..Len(range_rows) :
           range_rows' = SubSeq(range_rows, 1, r - 1)
                             \o SubSeq(range_rows, r + 1, Len(range_rows))
    /\ UNCHANGED <<selected_file_path, buttons, progress_bar, status_label,
                   messagebox, workers, after_queue>>
    /\ UNCHANGED <<coreVars, spinVars, fileVars>>

\* The user edits an entry of a row (the entries are never disabled).
TypeIntoRow ==
    /\ \E r \in 1..Len(range_rows), typed \in Typed :
           range_rows' = [range_rows EXCEPT ![r][typed[1]][typed[2]] = typed[3]]
    /\ UNCHANGED <<selected_file_path, buttons, progress_bar, status_label,
                   messagebox, workers, after_queue>>
    /\ UNCHANGED <<coreVars, spinVars, fileVars>>

\* widgets.py lines 103-110: what validate leaves in an entry
Validated(text, maximum) ==
    LET parsed == ParseInt(text)
    IN  IF parsed[1]
        THEN Formatted(Max(min_val, Min(parsed[2], maximum)))
        ELSE Formatted(min_val)

\* widgets.py lines 43-44: an entry of a row loses the focus, or Return is
\* pressed in it (the entries that are not typed into hold what set_val
\* wrote, which validate leaves as it is)
FocusOut ==
    /\ \E r \in 1..Len(range_rows), typed \in Typed :
           range_rows' = [range_rows EXCEPT
                              ![r][typed[1]][typed[2]] = Validated(@, FrameMax[typed[2]])]
    /\ UNCHANGED <<selected_file_path, buttons, progress_bar, status_label,
                   messagebox, workers, after_queue>>
    /\ UNCHANGED <<coreVars, spinVars, fileVars>>

\* audio_processor.py lines 77, 142: the first and the last progress value
\* that process_audio reports, in tenths (the values in between are left
\* out)
Reported == <<1, 10>>

\* lines 274, 285-286: process_audio, on the worker, calls update_progress
update_progress ==
    /\ \E w \in 1..Len(workers) :
           /\ workers[w].stage = "process_audio"
           /\ workers[w].reported < Len(Reported)
           /\ workers' = [workers EXCEPT ![w].reported = @ + 1]
           /\ after_queue' = Append(after_queue,
                  <<"progress_bar.set", Reported[workers[w].reported + 1]>>)
    /\ UNCHANGED <<selected_file_path, range_rows, buttons, progress_bar,
                   status_label, messagebox>>
    /\ UNCHANGED <<coreVars, spinVars, fileVars>>

\* lines 271-280: process_audio returns after its last report; the worker
\* schedules processing_finished(True, ...) and ends
ProcessReturns ==
    /\ \E w \in 1..Len(workers) :
           /\ workers[w].stage = "process_audio"
           /\ workers[w].reported = Len(Reported)
           /\ workers' = [workers EXCEPT ![w].stage = "ended", ![w].ranges = <<>>]
           /\ after_queue' = Append(after_queue, <<"processing_finished", TRUE, w>>)
    /\ UNCHANGED <<selected_file_path, range_rows, buttons, progress_bar,
                   status_label, messagebox>>
    /\ UNCHANGED <<coreVars, spinVars, fileVars>>

\* lines 282-283: process_audio raises; the worker, inside the except
\* clause, schedules lambda: self.processing_finished(False, str(e), ...)
ProcessRaises ==
    /\ \E w \in 1..Len(workers) :
           /\ workers[w].stage = "process_audio"
           /\ workers[w].reported < Len(Reported)
           /\ workers' = [workers EXCEPT ![w].stage = "except", ![w].ranges = <<>>]
           /\ after_queue' = Append(after_queue, <<"processing_finished", FALSE, w>>)
    /\ UNCHANGED <<selected_file_path, range_rows, buttons, progress_bar,
                   status_label, messagebox>>
    /\ UNCHANGED <<coreVars, spinVars, fileVars>>

\* line 283: the worker leaves the except clause, which deletes e, and ends
LeaveExcept ==
    /\ \E w \in 1..Len(workers) :
           /\ workers[w].stage = "except"
           /\ workers' = [workers EXCEPT ![w].stage = "ended"]
    /\ UNCHANGED <<selected_file_path, range_rows, buttons, progress_bar,
                   status_label, messagebox, after_queue>>
    /\ UNCHANGED <<coreVars, spinVars, fileVars>>

\* line 286: the event loop runs lambda: self.progress_bar.set(value)
SetProgress ==
    /\ after_queue # <<>>
    /\ Head(after_queue)[1] = "progress_bar.set"
    /\ progress_bar' = Head(after_queue)[2]
    /\ after_queue' = Tail(after_queue)
    /\ UNCHANGED <<selected_file_path, range_rows, buttons, status_label,
                   messagebox, workers>>
    /\ UNCHANGED <<coreVars, spinVars, fileVars>>

\* lines 288-303, for the run of worker w
processing_finished(success, w) ==
    /\ buttons' = set_ui_state("normal")
    /\ workers' = [workers EXCEPT ![w].finished = @ + 1]
    /\ IF success
       THEN /\ progress_bar' = 10
            /\ IF workers[w].is_preview
               THEN status_label' = "Preview Opened" /\ UNCHANGED messagebox
               ELSE /\ status_label' = "Saved"
                    /\ messagebox' = <<"showinfo", "Audio saved">>
       ELSE /\ status_label' = "Error"
            /\ progress_bar' = 0
            /\ messagebox' = <<"showerror", "An error occurred">>

\* lines 278, 283: the event loop runs a lambda that calls
\* processing_finished; the lambda of line 283 evaluates str(e) first, which
\* it can only while the worker is still inside the except clause
FinishedCallback ==
    /\ after_queue # <<>>
    /\ Head(after_queue)[1] = "processing_finished"
    /\ Head(after_queue)[2] \/ workers[Head(after_queue)[3]].stage = "except"
    /\ processing_finished(Head(after_queue)[2], Head(after_queue)[3])
    /\ after_queue' = Tail(after_queue)
    /\ UNCHANGED <<selected_file_path, range_rows>>
    /\ UNCHANGED <<coreVars, spinVars, fileVars>>

\* line 283: the lambda runs after the worker has left the except clause:
\* e is unbound, str(e) raises NameError, and Tk reports the exception of
\* the callback and goes on
FinishedNameError ==
    /\ after_queue # <<>>
    /\ Head(after_queue)[1] = "processing_finished"
    /\ ~Head(after_queue)[2]
    /\ workers[Head(after_queue)[3]].stage = "ended"
    /\ after_queue' = Tail(after_queue)
    /\ UNCHANGED <<selected_file_path, range_rows, buttons, progress_bar,
                   status_label, messagebox, workers>>
    /\ UNCHANGED <<coreVars, spinVars, fileVars>>

\* lines 32-37, 53-60, 116, 165-167: the view after setup_ui, with its
\* first row
InitView ==
    /\ CoreAbsent /\ SpinboxAbsent /\ FilesAbsent
    /\ selected_file_path = FALSE
    /\ range_rows = <<<<TimeInputFrame, TimeInputFrame>>>>
    /\ buttons = set_ui_state("normal")
    /\ progress_bar = 0
    /\ status_label = "Ready"
    /\ messagebox = <<>>
    /\ workers = <<>>
    /\ after_queue = <<>>

NextView ==
    \/ select_file
    \/ add_range_row
    \/ remove_range_row
    \/ TypeIntoRow
    \/ FocusOut
    \/ on_preview
    \/ on_save
    \/ update_progress
    \/ ProcessReturns
    \/ ProcessRaises
    \/ LeaveExcept
    \/ SetProgress
    \/ FinishedCallback
    \/ FinishedNameError

SpecView == InitView /\ [][NextView]_vars

----------------------------------------------------------------------------
(* Reference notions the properties are stated with *)

\* The keep-range list has been computed and is the one the loop walks.
Resolved == pc \in {"loop", "export", "done"}

RemoveMode == Resolved /\ ~keep_selected_ranges

KeepMode == Resolved /\ keep_selected_ranges

\* Every offset a range of the model can mention.
Offsets == 0..(MaxMs + MaxT)

\* The millisecond cell [t, t+1) lies in the range r = [start, end).
InRange(t, r) == r[1] <= t /\ t < r[2]

\* The cells covered by some range of the list rs.
Covered(rs) == {t \in Offsets : \E k \in 1..Len(rs) : InRange(t, rs[k])}

\* The cells of [0, T) that some range of rs covers.
RemovedCells(rs, T) == {t \in Covered(rs) : t < T}

RECURSIVE SumDurations(_, _)
SumDurations(rs, n) ==
    IF n = 0 THEN 0 ELSE SumDurations(rs, n - 1) + (rs[n][2] - rs[n][1])

RECURSIVE AscendingSeq(_)
AscendingSeq(S) ==
    IF S = {} THEN <<>>
    ELSE LET m == CHOOSE x \in S : \A y \in S : x <= y
         IN  <<m>> \o AscendingSeq(S \ {m})

\* The sorted maximal disjoint intervals whose union is the union of rs
\* restricted to [0, T].
Merged(rs, T) ==
    LET cells == RemovedCells(rs, T)
        starts == AscendingSeq({t \in cells : (t - 1) \notin cells})
        EndOf(s) == CHOOSE e \in (s + 1)..T :
                        /\ e \notin cells
                        /\ \A u \in s..(e - 1) : u \in cells
    IN  [k \in 1..Len(starts) |-> <<starts[k], EndOf(starts[k])>>]

WithinDuration(rs) == \A k \in 1..Len(rs) : rs[k][2] <= total_duration

StrictlyOrdered(rs) ==
    \A k \in 1..(Len(rs) - 1) :
        /\ rs[k][1] < rs[k + 1][1]
        /\ rs[k][2] <= rs[k + 1][1]

Occurrences(rs, r) == Cardinality({k \in 1..Len(rs) : rs[k] = r})

\* The calls of the log made with operation op, in order.
CallsOf(op) == LET IsOp(c) == c[1] = op IN SelectSeq(calls, IsOp)

----------------------------------------------------------------------------
(* C1 .. C10 *)

\* C1: in Remove mode, when every remove range lies within [0, T], the
\* offsets covered by the keep-ranges are exactly the offsets of [0, T)
\* that lie in no remove range.
C1_KeepIsComplement ==
    (RemoveMode /\ WithinDuration(supplied_ranges)) =>
        Covered(keep_ranges) =
            {t \in 0..(total_duration - 1) :
                \A k \in 1..Len(supplied_ranges) : ~InRange(t, supplied_ranges[k])}

C1_Witness ==
    /\ RemoveMode
    /\ WithinDuration(supplied_ranges)
    /\ Len(supplied_ranges) = 2
    /\ supplied_ranges[1][1] > supplied_ranges[2][1]
    /\ supplied_ranges[2][2] > supplied_ranges[1][1]
    /\ keep_ranges # <<>>
    /\ pc = "done"

\* C2: in Remove mode every keep-range (s, e) satisfies 0 <= s < e <= T,
\* whatever valid ranges (also ranges beyond T) the caller supplied.
C2_KeepWithinDuration ==
    RemoveMode =>
        \A k \in 1..Len(keep_ranges) :
            /\ 0 <= keep_ranges[k][1]
            /\ keep_ranges[k][1] < keep_ranges[k][2]
            /\ keep_ranges[k][2] <= total_duration

\* C3: in Remove mode the keep-ranges are strictly increasing by start and
\* each keep-range ends no later than the next one starts.
C3_KeepOrderedDisjoint == RemoveMode => StrictlyOrdered(keep_ranges)

C3_Witness ==
    /\ RemoveMode
    /\ Len(keep_ranges) >= 2
    /\ Len(supplied_ranges) = 2
    /\ supplied_ranges[1][1] >= supplied_ranges[2][1]

\* C4: in Remove mode the keep durations plus the measure of the union of
\* the remove ranges clamped to [0, T] add up to T.
C4_DurationAccounting ==
    RemoveMode =>
        SumDurations(keep_ranges, Len(keep_ranges))
            + Cardinality(RemovedCells(supplied_ranges, total_duration))
        = total_duration

\* C5: inverting the resolver's own output gives back the merged form of
\* the remove ranges restricted to [0, T].
C5_InversionRoundTrip ==
    RemoveMode =>
        invert_ranges(keep_ranges, total_duration)
            = Merged(supplied_ranges, total_duration)

\* C6: in both modes the list handed to the slice/append loop is strictly
\* ordered by start, non-overlapping, and every end is <= the duration.
C6_LoopInputWellFormed ==
    Resolved => (StrictlyOrdered(keep_ranges) /\ WithinDuration(keep_ranges))

\* C7: in Keep mode the list the loop slices is the caller's list sorted
\* ascending by start: the same ranges with the same multiplicities.
C7_KeepModePassThrough ==
    KeepMode =>
        /\ \A k \in 1..(Len(keep_ranges) - 1) :
               keep_ranges[k][1] <= keep_ranges[k + 1][1]
        /\ Len(keep_ranges) = Len(supplied_ranges)
        /\ \A r \in ValidRanges :
               Occurrences(keep_ranges, r) = Occurrences(supplied_ranges, r)
        /\ (pc = "done" =>
               /\ Len(CallsOf("slice")) = Len(keep_ranges)
               /\ \A k \in 1..Len(keep_ranges) :
                      CallsOf("slice")[k] =
                          <<"slice", keep_ranges[k][1], keep_ranges[k][2]>>)

C7_Witness ==
    /\ KeepMode
    /\ pc = "done"
    /\ Len(supplied_ranges) = 2
    /\ supplied_ranges[1][1] > supplied_ranges[2][1]
    /\ supplied_ranges[2][2] > supplied_ranges[1][1]

\* C8: every slice audio[start:end] the loop performs has 0 <= start and
\* end <= len(audio).
C8_SliceWithinAudio ==
    \A n \in 1..Len(calls) :
        calls[n][1] = "slice" => (0 <= calls[n][2] /\ calls[n][3] <= Len(audio))

\* C9: for keep-ranges within [0, T] the output is the concatenation of the
\* slices in list order: after k iterations its length is the sum of the
\* first k durations, and the part range k contributed is source[s_k:e_k].
C9_OutputIsConcatenation ==
    (Resolved /\ WithinDuration(keep_ranges)) =>
        /\ Len(final_audio) = SumDurations(keep_ranges, i)
        /\ \A k \in 1..i :
               \A j \in 1..(keep_ranges[k][2] - keep_ranges[k][1]) :
                   final_audio[SumDurations(keep_ranges, k - 1) + j]
                       = audio[keep_ranges[k][1] + j]

C9_Witness ==
    /\ pc = "done"
    /\ WithinDuration(keep_ranges)
    /\ Len(keep_ranges) = 2
    /\ keep_ranges[1][2] > keep_ranges[2][1]
    /\ keep_ranges[1] # keep_ranges[2]
    /\ Len(final_audio) > total_duration

\* C10: the loop performs one slice and one append per range, in list order,
\* the slice of a range directly followed by its append and then by its
\* progress report, before the next range is sliced.
C10_SliceAppendOrder ==
    Resolved =>
        LET head == IF has_callback THEN 3 ELSE 1
            stride == IF has_callback THEN 3 ELSE 2
            N == IF pc = "done" THEN Len(keep_ranges) ELSE i
        IN  /\ pc = "done" => i = Len(keep_ranges)
            /\ Len(CallsOf("slice")) = N
            /\ Len(CallsOf("append")) = N
            /\ \A k \in 1..N :
                   LET at == head + stride * (k - 1)
                       start == keep_ranges[k][1]
                       end == keep_ranges[k][2]
                   IN  /\ calls[at + 1] = <<"slice", start, end>>
                       /\ calls[at + 2] = <<"append", start, end>>
                       /\ has_callback => calls[at + 3][1] = "progress"

C10_Witness ==
    /\ pc = "done"
    /\ has_callback
    /\ Len(keep_ranges) = 2
    /\ Len(CallsOf("slice")) = 2

\* C11: in one invocation with a progress sink, the values passed to the
\* sink (0.1 and 0.3 around loading, one per keep-range, 0.8 at the end of
\* assembly, 1.0 after export), taken as exact rationals, form a
\* non-decreasing sequence and each lies in [0, 1]; this holds at every
\* point of the run, for every number of keep-ranges including none, and in
\* runs that fail.
C11_ProgressMonotone ==
    LET reported == CallsOf("progress")
    IN  /\ \A k \in 1..Len(reported) :
               /\ reported[k][3] > 0
               /\ 0 <= reported[k][2]
               /\ reported[k][2] <= reported[k][3]
        /\ \A k \in 1..(Len(reported) - 1) :
               reported[k][2] * reported[k + 1][3]
                   <= reported[k + 1][2] * reported[k][3]
        /\ ~has_callback => reported = <<>>

C11_Witness ==
    /\ pc = "done"
    /\ has_callback
    /\ Len(keep_ranges) >= 2
    /\ Len(CallsOf("progress")) = Len(keep_ranges) + 4

\* C12 as stated: for a non-empty keep-range list of size N, the value
\* reported after the k-th range is 0.3 + (k/N) * 0.5, the N values are
\* strictly increasing, the first is above the 0.3 reported before assembly,
\* and the last, as handed to the sink, equals 0.8 exactly.
C12_AssemblyBand ==
    LET count == Len(keep_ranges)
        reported == CallsOf("progress")
    IN  has_callback /\ i >= 1 =>
            /\ \A k \in 1..i :
                   reported[k + 2][2] * 10 * count
                       = reported[k + 2][3] * (3 * count + 5 * k)
            /\ DoubleLess(Double03, sink[3])
            /\ \A k \in 1..(i - 1) : DoubleLess(sink[k + 2], sink[k + 3])
            /\ i = count => sink[count + 2] = Double08

\* C12, amended: the value reported after the k-th of N ranges denotes
\* 0.3 + (k/N) * 0.5, which is 0.8 for k = N; the doubles handed to the sink
\* are strictly increasing, the first is above 0.3 and none is above 0.8, but
\* the last is either 0.8 or the double just below it
\* (0.7999999999999999, for N = 49); the exact 0.8 is the separate report
\* that follows the loop.
C12_AssemblyBandAsComputed ==
    LET count == Len(keep_ranges)
        reported == CallsOf("progress")
    IN  has_callback /\ i >= 1 =>
            /\ \A k \in 1..i :
                   reported[k + 2][2] * 10 * count
                       = reported[k + 2][3] * (3 * count + 5 * k)
            /\ DoubleLess(Double03, sink[3])
            /\ \A k \in 1..(i - 1) : DoubleLess(sink[k + 2], sink[k + 3])
            /\ \A k \in 1..i : DoubleLeq(sink[k + 2], Double08)
            /\ i = count =>
                   \/ sink[count + 2] = Double08
                   \/ /\ sink[count + 2][1] = Double08[1]
                      /\ BigPlus(sink[count + 2][2], <<1>>) = Double08[2]
            /\ pc \in {"export", "done"} => sink[count + 3] = Double08

C12_Witness ==
    /\ pc = "done"
    /\ has_callback
    /\ Len(keep_ranges) >= 2
    /\ sink[Len(keep_ranges) + 2] # Double08
    /\ sink[Len(keep_ranges) + 3] = Double08

\* C13: when process_audio has returned and there is a sink, the last value
\* the sink received is exactly 1.0, it is the only 1.0 and it was passed
\* right after the export call; in every other run, in particular in every
\* run that ends by raising (missing input, load, slice/append or export
\* failure), the sink never receives 1.0.
C13_FinalProgress ==
    /\ returned <=> pc = "done"
    /\ raised # "none" => pc = "failed"
    /\ pc = "done" /\ has_callback =>
           /\ Last(sink) = Double10
           /\ Last(calls) = <<"progress", 10, 10>>
           /\ calls[Len(calls) - 1][1] = "export"
           /\ \A k \in 1..(Len(sink) - 1) : sink[k] # Double10
    /\ pc # "done" =>
           /\ \A k \in 1..Len(sink) : sink[k] # Double10
           /\ \A k \in 1..Len(calls) :
                  calls[k][1] = "progress" => calls[k][2] < calls[k][3]

C13_Witness ==
    /\ pc = "done"
    /\ has_callback
    /\ returned
    /\ Last(sink) = Double10
    /\ Len(CallsOf("export")) = 1

\* The phases of one invocation, in order; done and failed are terminal.
Rank(phase) ==
    CASE phase = "start" -> 0
      [] phase = "load" -> 1
      [] phase = "resolve" -> 2
      [] phase = "loop" -> 3
      [] phase = "export" -> 4
      [] OTHER -> 5

\* C14: every step of an invocation either stays in the assembly loop,
\* raising i by exactly 1, or moves to the next phase (Idle, Resolving,
\* Assembling, export, Complete), or moves from a non-terminal phase to
\* Failed; the loop is left for the export only with i = N; i never
\* decreases; and no step at all (no slice, append, progress or export) is
\* taken once the invocation is Complete or Failed.
C14_PhaseOrder ==
    [][/\ pc \notin {"done", "failed"}
       /\ Rank(pc') >= Rank(pc)
       /\ pc' # pc => pc' = "failed" \/ Rank(pc') = Rank(pc) + 1
       /\ pc' = pc => pc = "loop" /\ i' = i + 1 /\ i' <= Len(keep_ranges)
       /\ pc' # pc => i' = i
       /\ pc = "loop" /\ pc' = "export" => i = Len(keep_ranges)
       /\ pc' = "failed" <=> raised' # "none"
       /\ pc' = "done" <=> returned']_vars

C14_Witness ==
    /\ pc = "done"
    /\ i = 2
    /\ i = Len(keep_ranges)
    /\ Len(CallsOf("slice")) = 2

\* C15: when the slice or the append of the k-th keep-range (k = i + 1) has
\* failed, the failure is raised and the invocation is over: nothing further
\* can happen, the failing call is the last call made, there was one slice
\* per range up to k and none for a later range (so no retry), no progress
\* report for range k or later, no export and no returned path.
C15_AbortOnFailure ==
    raised = "Exception" =>
        /\ pc = "failed"
        /\ ~returned
        /\ ~ENABLED Next
        /\ i < Len(keep_ranges)
        /\ CallsOf("export") = <<>>
        /\ Len(CallsOf("slice")) = i + 1
        /\ Len(CallsOf("append")) \in {i, i + 1}
        /\ Len(CallsOf("progress")) = IF has_callback THEN i + 2 ELSE 0
        /\ Last(calls)[1] \in {"slice", "append"}
        /\ <<Last(calls)[2], Last(calls)[3]>> = keep_ranges[i + 1]
        /\ \A k \in 1..Len(calls) :
               calls[k][1] \in {"slice", "append"} =>
                   \E m \in 1..(i + 1) : keep_ranges[m] = <<calls[k][2], calls[k][3]>>

C15_Witness ==
    /\ raised = "Exception"
    /\ i = 0
    /\ Len(keep_ranges) = 2
    /\ has_callback
    /\ Last(calls)[1] = "append"

\* invert_ranges has just been applied to the caller's list.
Inverted == pc = "loop" /\ i = 0 /\ ~keep_selected_ranges

\* The union of the ranges of rs covers the interval [0, T]: every
\* millisecond of it lies in a range, and so does its first point.
CoversAll(rs, T) ==
    /\ \A t \in 0..(T - 1) : \E k \in 1..Len(rs) : InRange(t, rs[k])
    /\ \E k \in 1..Len(rs) : rs[k][1] = 0

\* C16: in Remove mode, whenever the union of the remove ranges covers
\* [0, T], invert_ranges returns the empty list.
C16_FullRemoval ==
    RemoveMode /\ CoversAll(supplied_ranges, total_duration) => keep_ranges = <<>>

\* C17: invert_ranges with an empty remove list returns exactly [(0, T)]
\* when T > 0 and the empty list when T = 0.
C17_EmptyInput ==
    RemoveMode /\ supplied_ranges = <<>> =>
        keep_ranges = IF total_duration > 0
                      THEN <<<<0, total_duration>>>>
                      ELSE <<>>

C17_Witness ==
    /\ Inverted
    /\ supplied_ranges = <<>>
    /\ total_duration > 0
    /\ keep_ranges = <<<<0, total_duration>>>>

\* C18: with an empty resolved keep-range list the loop makes no slice, no
\* append and no per-range report and cannot fail; the only way on is the
\* 0.8 report, then the export of the empty buffer; when the export
\* succeeds 1.0 is reported and the path returned, and the only failure
\* possible once 0.3 has been reported is the export's own.
C18_EmptyKeepIsValid ==
    keep_ranges = <<>> =>
        /\ CallsOf("slice") = <<>>
        /\ CallsOf("append") = <<>>
        /\ final_audio = <<>>
        /\ raised \notin {"Exception", "ValueError"}
        /\ pc = "loop" =>
               /\ ENABLED EndLoop
               /\ ~ENABLED LoopIteration
               /\ ~ENABLED LoopFails
               /\ calls = Report(1, 10) \o <<<<"load", 0, 0>>>> \o Report(3, 10)
        /\ pc = "export" =>
               /\ ENABLED Export
               /\ calls = Report(1, 10) \o <<<<"load", 0, 0>>>> \o Report(3, 10)
                              \o Report(8, 10)
        /\ pc = "done" =>
               /\ returned
               /\ raised = "none"
               /\ calls = Report(1, 10) \o <<<<"load", 0, 0>>>> \o Report(3, 10)
                              \o Report(8, 10) \o <<<<"export", 0, 0>>>>
                              \o Report(10, 10)
               /\ sink = Sunk(Double01) \o Sunk(Double03) \o Sunk(Double08)
                             \o Sunk(Double10)
        /\ pc = "failed" /\ Len(sink) >= 2 =>
               /\ raised = "RuntimeError"
               /\ sink = Sunk(Double01) \o Sunk(Double03) \o Sunk(Double08)
               /\ Last(calls) = <<"export", 0, 0>>

C18_Witness ==
    /\ pc = "done"
    /\ keep_ranges = <<>>
    /\ ~keep_selected_ranges
    /\ total_duration > 0
    /\ has_callback
    /\ returned

\* The lists with the same ranges as rs in some other order.
Reorderings(rs) ==
    {[k \in 1..Len(rs) |-> rs[f[k]]] :
        f \in {g \in [1..Len(rs) -> 1..Len(rs)] :
                  \A a, b \in 1..Len(rs) : a # b => g[a] # g[b]}}

\* C19: invert_ranges returns the same keep-range list for every
\* permutation of the remove list, ranges with equal starts included.
C19_OrderIndependence ==
    Inverted =>
        \A permuted \in Reorderings(supplied_ranges) :
            invert_ranges(permuted, total_duration) = keep_ranges

C19_Witness ==
    /\ Inverted
    /\ Len(supplied_ranges) = 2
    /\ supplied_ranges[1][1] = supplied_ranges[2][1]
    /\ supplied_ranges[1][2] > supplied_ranges[2][2]
    /\ keep_ranges # <<>>

\* The list rs with the range r put after its first `at` ranges.
InsertAt(rs, at, r) == SubSeq(rs, 1, at) \o <<r>> \o SubSeq(rs, at + 1, Len(rs))

\* The list rs with the range that has p strictly inside cut in two at p.
RECURSIVE SplitAt(_, _)
SplitAt(rs, p) ==
    IF rs = <<>> THEN <<>>
    ELSE LET first == Head(rs)
         IN  (IF first[1] < p /\ p < first[2]
              THEN <<<<first[1], p>>, <<p, first[2]>>>>
              ELSE <<first>>) \o SplitAt(Tail(rs), p)

\* C20 as stated: adding a range (p, p), 0 <= p <= T, anywhere in a list of
\* valid remove ranges leaves the list invert_ranges returns unchanged.
C20_ZeroLengthIgnored ==
    Inverted =>
        \A p \in 0..total_duration : \A at \in 0..Len(supplied_ranges) :
            invert_ranges(InsertAt(supplied_ranges, at, <<p, p>>), total_duration)
                = keep_ranges

\* C20, amended: adding (p, p), 0 <= p <= T, leaves the kept milliseconds
\* unchanged, and the list unchanged except that a keep-range with p
\* strictly inside it is returned as two adjacent ranges meeting at p.
C20_ZeroLengthSplits ==
    Inverted =>
        \A p \in 0..total_duration : \A at \in 0..Len(supplied_ranges) :
            LET added == invert_ranges(InsertAt(supplied_ranges, at, <<p, p>>),
                                      total_duration)
            IN  /\ added = SplitAt(keep_ranges, p)
                /\ Covered(added) = Covered(keep_ranges)
                /\ Len(added) \in {Len(keep_ranges), Len(keep_ranges) + 1}

C20_Witness ==
    /\ Inverted
    /\ supplied_ranges # <<>>
    /\ \E p \in 0..total_duration :
           /\ SplitAt(keep_ranges, p) # keep_ranges
           /\ invert_ranges(Append(supplied_ranges, <<p, p>>), total_duration)
                  = SplitAt(keep_ranges, p)

\* C22: when the input path does not exist, FileNotFoundError is raised
\* before anything else has happened: nothing was passed to the sink, no
\* collaborator was called (no load, slice, append or export), the caller's
\* list was not sorted, nothing was resolved, and nothing happens afterwards.
C22_MissingInputFirst ==
    raised = "FileNotFoundError" =>
        /\ pc = "failed"
        /\ calls = <<>>
        /\ sink = <<>>
        /\ audio = <<>>
        /\ total_duration = 0
        /\ remove_ranges_ms = supplied_ranges
        /\ keep_ranges = <<>>
        /\ final_audio = <<>>
        /\ i = 0
        /\ ~returned
        /\ ~ENABLED Next

C22_Witness ==
    /\ raised = "FileNotFoundError"
    /\ has_callback
    /\ Len(supplied_ranges) = 2
    /\ supplied_ranges[1][1] > supplied_ranges[2][1]

\* C25: the loop of invert_ranges makes exactly len(remove_ranges)
\* iterations; process_audio never makes more than N slices, N the length
\* of the keep list, never slices a range twice, and, every collaborator
\* call returning or raising, always reaches completion or failure.
C25_Terminates ==
    /\ [](Inverted =>
             Sweep(SortByStart(supplied_ranges), 1, 0, <<>>)[3] = Len(supplied_ranges))
    /\ [](/\ Len(CallsOf("slice")) <= Len(keep_ranges)
          /\ Len(CallsOf("slice")) \in {i, i + 1}
          /\ Len(CallsOf("export")) <= 1
          /\ Len(CallsOf("load")) <= 1)
    /\ <>(pc \in {"done", "failed"})

C25_Witness ==
    /\ pc = "done"
    /\ ~keep_selected_ranges
    /\ Len(supplied_ranges) = 2
    /\ Len(keep_ranges) = 2
    /\ Len(CallsOf("slice")) = 2
    /\ ~has_callback

\* C29: no step of process_audio changes which ranges the caller's list
\* holds or how often (the list is only reordered, in both modes); once
\* loaded, the source buffer and the total duration never change; the keep
\* list changes only when it is resolved; and the output buffer changes
\* only in a loop iteration, which appends the slice of the next keep-range.
C29_Frame ==
    [][/\ Len(remove_ranges_ms') = Len(remove_ranges_ms)
       /\ \A k \in 1..Len(remove_ranges_ms) :
              Occurrences(remove_ranges_ms', remove_ranges_ms[k])
                  = Occurrences(remove_ranges_ms, remove_ranges_ms[k])
       /\ remove_ranges_ms' # remove_ranges_ms => pc = "resolve"
       /\ pc # "load" => audio' = audio /\ total_duration' = total_duration
       /\ total_duration' = Len(audio')
       /\ keep_ranges' # keep_ranges => pc = "resolve"
       /\ final_audio' # final_audio =>
              /\ pc = "loop" /\ i' = i + 1
              /\ final_audio' = final_audio
                     \o Slice(audio, keep_ranges[i'][1], keep_ranges[i'][2])
       /\ pc = "loop" /\ pc' = "loop" =>
              Len(final_audio') - Len(final_audio)
                  = Len(Slice(audio, keep_ranges[i'][1], keep_ranges[i'][2]))]_vars

C29_Witness ==
    /\ pc = "done"
    /\ remove_ranges_ms # supplied_ranges
    /\ keep_selected_ranges
    /\ Len(final_audio) >= 2
    /\ i = 2

\* The entry holds the text of an integer in [min_val, max_val].
HoldsValueInRange(text) ==
    /\ ParseInt(text)[1]
    /\ min_val <= ParseInt(text)[2]
    /\ ParseInt(text)[2] <= max_val

\* C30: right after an add, a subtract or a validate the entry holds an
\* integer in [min_val, max_val], whatever text it held before; add on
\* max_val gives min_val and subtract on min_val gives max_val.
C30_SpinboxRange ==
    [][/\ add \/ subtract \/ validate => HoldsValueInRange(entry')
       /\ add /\ ParseInt(entry) = <<TRUE, max_val>> => entry' = Formatted(min_val)
       /\ subtract /\ ParseInt(entry) = <<TRUE, min_val>> =>
              entry' = Formatted(max_val)]_vars

\* The factor lies in the closed interval [0.5, 2.0].
InsideSpeedRange(factor) ==
    factor[1] = "finite" /\ factor[2] \in {2, 3, 4, 5, 6, 7, 8}

\* C23: change_speed with a factor outside [0.5, 2.0] raises ValueError and
\* does nothing else: the input file is not checked, no progress is
\* reported, no output path is chosen, ffmpeg is not run; with a factor
\* inside the interval, 0.5 and 2.0 included, no ValueError is raised.
C23_FactorCheckedFirst ==
    operation = "change_speed" =>
        /\ ~InsideSpeedRange(speed_factor) =>
               /\ stage \in {"start", "failed"}
               /\ stage = "failed" => error = "ValueError"
               /\ stage = "start" =>
                      /\ ENABLED RejectFactor
                      /\ ~ENABLED SpeedInputMissing
                      /\ ~ENABLED SpeedPrepare
               /\ steps = <<>>
               /\ actual_output_path = <<>>
        /\ InsideSpeedRange(speed_factor) =>
               /\ error # "ValueError"
               /\ ~ENABLED RejectFactor

C23_Witness ==
    /\ operation = "change_speed"
    /\ speed_factor = <<"finite", 9>>
    /\ ~inputs[1]
    /\ error = "ValueError"
    /\ steps = <<>>

\* C24: the path get_unique_filepath returns does not exist when it returns;
\* it is the path given if that does not exist, otherwise base_k.ext for the
\* smallest k >= 1 that does not exist, base and extension kept; and the
\* export of each operation writes only the chosen path, which did not exist
\* before the export.
C24_UniquePath ==
    [][/\ actual_output_path' # actual_output_path =>
              /\ actual_output_path' \notin existing'
              /\ actual_output_path'[1] = "base"
              /\ actual_output_path'[3] = "ext"
              /\ actual_output_path'[2] >= 0
              /\ \A k \in 0..(actual_output_path'[2] - 1) : Candidate(k) \in existing
              /\ existing' = existing
       /\ existing' # existing =>
              /\ stage = "export"
              /\ actual_output_path \notin existing
              /\ existing' = existing \cup {actual_output_path}
       /\ stage' = "done" =>
              /\ actual_output_path \notin existing
              /\ actual_output_path \in existing']_vars

C24_Witness ==
    /\ operation = "convert_format"
    /\ stage = "done"
    /\ actual_output_path = Candidate(2)
    /\ existing = {Candidate(0), Candidate(1), Candidate(2)}

----------------------------------------------------------------------------
(* TrimView *)

\* The workers that are executing process_audio.
Executing == {w \in 1..Len(workers) : workers[w].stage = "process_audio"}

\* The callback that ends the run of worker w is still in the queue.
Pending(w) ==
    \E k \in 1..Len(after_queue) :
        after_queue[k][1] = "processing_finished" /\ after_queue[k][3] = w

\* C21: every range that get_ranges_in_ms hands to a worker, and so to
\* process_audio, satisfies 0 <= start < end, whatever the entries of the
\* rows hold, typed text included.
C21_RangesValid ==
    \A w \in Executing :
        \A k \in 1..Len(workers[w].ranges) :
            /\ 0 <= workers[w].ranges[k][1]
            /\ workers[w].ranges[k][1] < workers[w].ranges[k][2]

\* C26: processing_finished runs at most once for a run, and once the worker
\* of a run has ended and nothing of the run is left in the event queue it
\* has run exactly once, whether process_audio returned or raised.
C26_CompletionDelivered ==
    \A w \in 1..Len(workers) :
        /\ workers[w].finished <= 1
        /\ workers[w].stage = "ended" /\ ~Pending(w) => workers[w].finished = 1

\* C27: at most one worker is executing process_audio at any moment, and
\* while one is, the preview and the save control are disabled.
C27_OneWorker ==
    /\ Cardinality(Executing) <= 1
    /\ Executing # {} =>
           buttons["preview_btn"] = "disabled" /\ buttons["save_btn"] = "disabled"

C27_Witness ==
    /\ Len(workers) = 2
    /\ workers[1].finished = 1
    /\ workers[2].stage = "process_audio"

\* C28: a worker is started only when a file is selected and
\* get_ranges_in_ms is not empty, and its ranges are that list; a click on
\* preview or save without a file or without a valid range shows a warning
\* and changes nothing else; no worker ever executes process_audio on an
\* empty list of ranges.
C28_StartNeedsFileAndRange ==
    /\ [](\A w \in Executing : workers[w].ranges # <<>>)
    /\ [][/\ Len(workers') > Len(workers) =>
                 /\ selected_file_path
                 /\ get_ranges_in_ms(range_rows) # <<>>
                 /\ workers' = Append(workers, workers'[Len(workers')])
                 /\ workers'[Len(workers')].ranges = get_ranges_in_ms(range_rows)
          /\ /\ on_preview \/ on_save
             /\ ~(selected_file_path /\ get_ranges_in_ms(range_rows) # <<>>)
             => /\ messagebox'[1] = "showwarning"
                /\ UNCHANGED <<selected_file_path, range_rows, buttons,
                               progress_bar, status_label, workers,
                               after_queue>>]_vars

C28_Witness ==
    /\ selected_file_path
    /\ get_ranges_in_ms(range_rows) = <<>>
    /\ messagebox = <<"showwarning", "Please ensure valid time ranges are set (Start < End).">>
    /\ workers = <<>>

====
